---- MODULE Spec2Model ----
(***************************************************************************)
(* Overlay editor of the RTSP streaming application: the debounced         *)
(* persistence queue (frontend/src/hooks/useOverlayPosition.ts) on top of  *)
(* the resilient request client (frontend/src/services/api.ts).            *)
(*                                                                         *)
(* Time is counted in milliseconds.  Every setTimeout of the code is a     *)
(* record with the milliseconds left until it is due; Tick advances time   *)
(* to the next due timer and is taken only when no timer is due, since the *)
(* event loop runs a due timer before a later one.  A fetch's time is not  *)
(* constrained: its response, its network failure or its abort arrive      *)
(* when they arrive.                                                       *)
(***************************************************************************)
EXTENDS Integers, Sequences, FiniteSets, TLC

\* ------------------------------------------------------------- constants

\* setTimeout(performUpdate, 500)
DebounceDelay == 500
\* defaultOptions.retries, defaultOptions.retryDelay
DefaultRetries == 3
DefaultRetryDelay == 1000
\* OverlayAPI.update: retries: 2
UpdateRetries == 2

\* ---------------------------------------------------------------- bounds

\* Edits (calls of updatePosition / updateSize) in one run.
MaxEdits == 3
\* Calls of cleanup() in one run.
MaxCleanups == 1
\* Attempts that fail in one run of the queue.
MaxFailures == 3
\* Direct requests in one run of the request client.
MaxRequests == 1
\* Requests in one run of the request client with its cache.
MaxCalls == 2
\* Calls of cancelRequest / cancelAllRequests in one run.
MaxCancels == 1
\* The retries option of the GET requests.
GetRetriesOptions == {0, 1}
\* The retries and retryDelay options of the direct requests.
RetriesOptions == {0, UpdateRetries, DefaultRetries}
DelayOptions == {DefaultRetryDelay, 2 * DefaultRetryDelay}

Overlays == {"ov1", "ov2"}
\* The overlays that are edited.
Edited == {"ov1"}
Fields == {"position", "size"}
\* The queue never looks into a position or a size: every edit brings a value
\* of its own, so that a request tells which edit it carries.
ValueOf(h) == <<10 * h, 10 * h>>

\* What a fetch can end with: an HTTP response (its status, and whether its
\* body can be read), a network failure (fetch rejects with a TypeError) or
\* the abort of its controller (fetch rejects with an AbortError).
Statuses == {200, 404, 408, 500}
HttpResponses == [kind : {"http"}, status : Statuses, readable : BOOLEAN]
Rejections == {[kind |-> "network"], [kind |-> "abort"]}

VARIABLES
    updating,          \* useState<string[]>: the ids being saved
    updateTimeouts,    \* useRef Map: overlay id -> timer handle (0: no entry)
    timers,            \* the armed debounce timers (setTimeout not yet run or cleared)
    calls,             \* the calls of requestWithRetry that have not settled
    abortControllers,  \* APIService.abortControllers: request key -> controller
    remote,            \* the remote store: overlay id -> field -> value
    received,          \* the remote store: overlay id -> the edit whose request came last
    overtaken,         \* history: edits whose request came after a later edit's
    edits,             \* history: the edits in the order they were made
    outcome,           \* history: each call of requestWithRetry and how it settled
    raised,            \* history: errors that escaped performUpdate
    failures,          \* history: attempts that failed
    last,              \* history: the end of the latest fetch (kept for direct requests)
    cleanups,          \* history: calls of cleanup()
    requestCache,      \* APIService.requestCache: request key -> cached response
    hits,              \* history: the calls that were answered from the cache
    cancelled,         \* history: the calls of cancelRequest / cancelAllRequests
    props,             \* DraggableOverlay props: isEditMode, isMobile, isTouchDevice
    overlay,           \* DraggableOverlay props: overlay.position, overlay.size
    isSelected,        \* useState: the overlay is selected
    dragState,         \* useState<DragState>
    touchesRef,        \* useRef Map: touch identifier -> TouchInfo
    longPressTimer,    \* the long-press setTimeout (longPressTimerRef), NoTimer if none
    lastTap,           \* ms since lastTapTimeRef (counted up to LongAgo)
    deselectTimers,    \* the auto-deselect setTimeouts that have not run
    contacts,          \* the fingers on the screen: identifier -> where down, where now
    dragBy,            \* history: what started the drag that is going on
    gestures,          \* history: the touches and presses so far
    draggedSinceTap,   \* history: isDragging was set since lastTapTimeRef was
    pressedAt,         \* where the mouse button was pressed (overlay or handle), if it is held
    emitted            \* the onPositionChange / onSizeChange call of the last step

vars == <<updating, updateTimeouts, timers, calls, abortControllers, remote,
          received, overtaken, edits, outcome, raised, failures, last, cleanups,
          requestCache, hits, cancelled, props, overlay, isSelected, dragState,
          touchesRef, longPressTimer, lastTap, deselectTimers, contacts, dragBy,
          gestures, draggedSinceTap, pressedAt, emitted>>

\* The state of one DraggableOverlay component and of the fingers on it.
gestureVars == <<props, overlay, isSelected, dragState, touchesRef, longPressTimer,
                 lastTap, deselectTimers, contacts, dragBy, gestures, draggedSinceTap,
                 pressedAt, emitted>>

\* The state of the persistence queue and of the request client.
syncVars == <<updating, updateTimeouts, timers, calls, abortControllers, remote,
              received, overtaken, edits, outcome, raised, failures, last, cleanups,
              requestCache, hits, cancelled>>

\* The cache of the request client and the history of its cache hits and
\* cancellations.
clientVars == <<requestCache, hits, cancelled>>

Range(s) == {s[i] : i \in DOMAIN s}

\* Math.pow(2, n)
RECURSIVE Pow2(_)
Pow2(n) == IF n = 0 THEN 1 ELSE 2 * Pow2(n - 1)

\* prev.filter(id => id !== overlayId)
Without(list, ov) == SelectSeq(list, LAMBDA id : id # ov)

\* ------------------------------------------------------ request client

\* `${API_BASE_URL}${endpoint}`
Url(endpoint) == <<"API_BASE_URL", endpoint>>

\* createRequestKey: `${method}-${endpoint}-${JSON.stringify(body)}`
CreateRequestKey(path, method, body) == <<method, path, body>>

\* defaultOptions.retryCondition
RetryCondition(error) ==
    \/ error.status = 0
    \/ error.status >= 500
    \/ error.status = 408
    \/ error.code = "NETWORK_ERROR"
    \/ error.code = "TIMEOUT_ERROR"

\* createAPIError: the typed error, its retryable flag from retryCondition
CreateAPIError(status, code) ==
    [status |-> status, code |-> code,
     retryable |-> RetryCondition([status |-> status, code |-> code])]

\* response.ok
ResponseOk(resp) == resp.kind = "http" /\ resp.status >= 200 /\ resp.status <= 299

\* The error an attempt ends with (lastError): fetchWithTimeout's catch for a
\* rejected fetch, the catch of requestWithRetry for a body that cannot be
\* read (an error without a code), the !response.ok branch otherwise.
AttemptError(resp) ==
    IF resp.kind = "abort" THEN CreateAPIError(408, "TIMEOUT_ERROR")
    ELSE IF resp.kind = "network" THEN CreateAPIError(0, "NETWORK_ERROR")
    ELSE IF ~resp.readable THEN CreateAPIError(0, "UNKNOWN_ERROR")
    ELSE CreateAPIError(resp.status,
                        IF resp.status >= 500 THEN "SERVER_ERROR" ELSE "CLIENT_ERROR")

\* An attempt succeeds when the response is read and is ok.
AttemptSucceeds(resp) == resp.kind = "http" /\ resp.readable /\ ResponseOk(resp)

\* A loop that makes one attempt more than `retries` allows.
GivesUpLate(c, error) == c.attempt = c.retries + 1 \/ ~RetryCondition(error)

\* if (attempt === retries || !retryCondition(lastError)) break;
GivesUp(c, error) == c.attempt = c.retries \/ ~RetryCondition(error)

\* A backoff that grows by retryDelay with every retry instead of doubling.
BackoffDelayLinear(c) == c.retryDelay * (c.attempt + 1)

\* A backoff that does not grow.
BackoffDelayFixed(c) == c.retryDelay

\* const delay = retryDelay * Math.pow(2, attempt)
BackoffDelay(c) == c.retryDelay * Pow2(c.attempt)

\* The key fetchWithTimeout registers the attempt's controller under.
FetchKey(c) == CreateRequestKey(Url(c.endpoint), c.method, c.body)

\* abortControllers.set(requestKey, controller)
Registered(map, c) ==
    {e \in map : e.key # FetchKey(c)}
        \cup {[key |-> FetchKey(c), call |-> c.id, attempt |-> c.attempt]}

\* abortControllers.delete(requestKey)
Unregistered(map, c) == {e \in map : e.key # FetchKey(c)}

\* The endpoint as the caller gives it, without the base URL.
Path(endpoint) == <<endpoint>>

\* !fetchOptions.method || fetchOptions.method === 'GET'
IsGet(method) == method = "GET"

\* The key requestWithRetry reads and writes the cache under.
CacheKey(c) == CreateRequestKey(Path(c.endpoint), c.method, c.body)

\* setCache(key, data, 30000)
CacheTtl == 30000

\* The `cache` option of a request: not given, or one of fetch's cache modes.
CacheOptions == {"undefined", "default"}

\* !options.cache === false: the negation is applied first, so the cache is
\* read only when a (truthy) cache option is given.
ReadsCache(method, cache) == IsGet(method) /\ ((cache = "undefined") = FALSE)

\* A getFromCache that does not look at the age of the entry.
GetFromCacheStale(cache, key) == {e \in cache : e.key = key}

\* getFromCache: the entry of the key whose age is below its time-to-live
\* (Date.now() - timestamp < ttl); the data is the response of call `by`.
GetFromCache(cache, key) == {e \in cache : e.key = key /\ e.left > 0}

\* getFromCache on a miss: requestCache.delete(key)
CacheMissed(cache, key) == {e \in cache : e.key # key}

\* setCache(key, data, ttl): requestCache.set replaces the entry of the key
SetCache(cache, key, by, ttl) ==
    {e \in cache : e.key # key} \cup {[key |-> key, by |-> by, left |-> ttl]}

\* A call of requestWithRetry at its first attempt.
NewCall(id, edit, method, endpoint, body, retries, retryDelay) ==
    [id |-> id, edit |-> edit, method |-> method, endpoint |-> endpoint,
     body |-> body, retries |-> retries, retryDelay |-> retryDelay,
     attempt |-> 0, phase |-> "fetch", left |-> 0, waited |-> 0,
     at |-> <<0>>, arrived |-> FALSE, aborted |-> FALSE]

\* What the history keeps of a call: the edit it carries (0: none), its
\* result, the error it threw and when it made its attempts (the backoff
\* delays it had waited in all at each fetch).
Entry(c, result, error) ==
    [edit |-> c.edit, result |-> result, retries |-> c.retries,
     retryDelay |-> c.retryDelay, at |-> c.at]

NoError == [status |-> 200, code |-> "NONE", retryable |-> FALSE]

NoFetch ==
    [call |-> 0, attempt |-> 0, resp |-> [kind |-> "none"], persistent |-> FALSE,
     thrown |-> NoError]

\* --------------------------------------------------------- remote store

\* PUT /overlays/<id> with partial fields: the fields of the body replace the
\* stored ones, the others stay.
Stored(rem, c) ==
    IF c.method = "PUT"
    THEN [rem EXCEPT ![c.endpoint] =
             [f \in Fields |-> IF f \in DOMAIN c.body THEN c.body[f] ELSE @[f]]]
    ELSE rem

\* ---------------------------------------------------- persistence queue

\* { position } or { size }: the partial update of one field
Body(field, value) == field :> value

\* A clearTimeout that clears every armed timer, whose ever it is.
ClearEveryTimeout(armed, handle) == {}

\* clearTimeout(handle): a handle that has fired or was cleared is ignored
ClearTimeout(armed, handle) == {t \in armed : t.h # handle}

\* overlayAPI.update(overlayId, updates): PUT /overlays/<id>, retries: 2
UpdateCall(id, edit, ov, body) ==
    NewCall(id, edit, "PUT", ov, body, UpdateRetries, DefaultRetryDelay)

\* A performUpdate that yields before it reaches fetch(): the call waits for
\* a later turn of the event loop.
PerformUpdateDeferred(h, ov, body) ==
    LET c == [UpdateCall(Len(outcome) + 1, h, ov, body) EXCEPT !.phase = "backoff"]
    IN  /\ calls' = calls \cup {c}
        /\ abortControllers' = abortControllers
        /\ outcome' = Append(outcome, Entry(c, "pending", NoError))

\* performUpdate up to its await: overlayAPI.update runs synchronously into
\* requestWithRetry and fetchWithTimeout, which registers the controller and
\* calls fetch().
PerformUpdate(h, ov, body) ==
    LET c == UpdateCall(Len(outcome) + 1, h, ov, body)
    IN  /\ calls' = calls \cup {c}
        /\ abortControllers' = Registered(abortControllers, c)
        /\ outcome' = Append(outcome, Entry(c, "pending", NoError))

\* A performUpdate whose catch throws the error on.
PerformUpdateRethrows(c, result) ==
    /\ updating' = Without(updating, c.endpoint)
    /\ updateTimeouts' = [updateTimeouts EXCEPT ![c.endpoint] = 0]
    /\ raised' = IF result = "failed" THEN raised + 1 ELSE raised

\* performUpdate after overlayAPI.update has settled: the catch logs the
\* error and swallows it, the finally clears the flag and the map entry.
PerformUpdateSettled(c, result) ==
    /\ updating' = Without(updating, c.endpoint)
    /\ updateTimeouts' = [updateTimeouts EXCEPT ![c.endpoint] = 0]
    /\ raised' = raised

\* The edits a new non-immediate edit of `ov` follows within their window:
\* their timers are armed and not yet due.
InWindow(ov) == {t.h : t \in {u \in timers : u.ov = ov /\ u.left > 0}}

\* updatePosition / updateSize (the two bodies differ in the field only)
UpdateField(ov, field, value, immediate) ==
    /\ Len(edits) < MaxEdits
    /\ LET h == Len(edits) + 1
           existingTimeout == updateTimeouts[ov]
           kept == IF existingTimeout # 0
                   THEN ClearTimeout(timers, existingTimeout)
                   ELSE timers
           followed == IF immediate THEN {} ELSE InWindow(ov)
       IN  /\ updating' = Append(Without(updating, ov), ov)
           /\ edits' = Append([i \in DOMAIN edits |->
                                 IF i \in followed
                                 THEN [edits[i] EXCEPT !.within = @ \cup {h}]
                                 ELSE edits[i]],
                              [ov |-> ov, field |-> field, value |-> value,
                               immediate |-> immediate, within |-> {}])
           /\ IF immediate
              THEN /\ timers' = kept
                   /\ PerformUpdate(h, ov, Body(field, value))
                   /\ UNCHANGED updateTimeouts
              ELSE /\ timers' = kept \cup {[h |-> h, ov |-> ov,
                                            body |-> Body(field, value),
                                            left |-> DebounceDelay]}
                   /\ updateTimeouts' = [updateTimeouts EXCEPT ![ov] = h]
                   /\ UNCHANGED <<calls, abortControllers, outcome>>
    /\ UNCHANGED <<remote, received, overtaken, raised, failures, last, cleanups>>
    /\ UNCHANGED <<clientVars, gestureVars>>

UpdatePosition(ov, position, immediate) ==
    UpdateField(ov, "position", position, immediate)

UpdateSize(ov, size, immediate) ==
    UpdateField(ov, "size", size, immediate)

\* A debounce timer that waits until no update of its overlay is outstanding.
TimerFiresWhenIdle(t) ==
    /\ t \in timers
    /\ t.left = 0
    /\ \A u \in timers : u.h >= t.h
    /\ \A c \in calls : c.endpoint # t.ov
    /\ timers' = timers \ {t}
    /\ PerformUpdate(t.h, t.ov, t.body)
    /\ UNCHANGED <<updating, updateTimeouts, remote, received, overtaken, edits,
                   raised, failures, last, cleanups>>
    /\ UNCHANGED <<clientVars, gestureVars>>

\* The debounce timer runs performUpdate.  Timers of one delay fire in the
\* order they were armed.
TimerFires(t) ==
    /\ t \in timers
    /\ t.left = 0
    /\ \A u \in timers : u.h >= t.h
    /\ timers' = timers \ {t}
    /\ PerformUpdate(t.h, t.ov, t.body)
    /\ UNCHANGED <<updating, updateTimeouts, remote, received, overtaken, edits,
                   raised, failures, last, cleanups>>
    /\ UNCHANGED <<clientVars, gestureVars>>

\* cleanup(): clears the timers the map holds, the map and the list
Cleanup ==
    /\ cleanups < MaxCleanups
    /\ timers' = {t \in timers : \A ov \in Overlays : updateTimeouts[ov] # t.h}
    /\ updateTimeouts' = [ov \in Overlays |-> 0]
    /\ updating' = <<>>
    /\ cleanups' = cleanups + 1
    /\ UNCHANGED <<calls, abortControllers, remote, received, overtaken, edits,
                   outcome, raised, failures, last>>
    /\ UNCHANGED <<clientVars, gestureVars>>

\* --------------------------------------------------- network and clock

\* The request of the current attempt reaches the remote store.
Deliver(c) ==
    /\ c \in calls
    /\ c.phase = "fetch"
    /\ ~c.arrived
    /\ calls' = (calls \ {c}) \cup {[c EXCEPT !.arrived = TRUE]}
    /\ remote' = Stored(remote, c)
    /\ IF c.edit # 0
       THEN /\ received' = [received EXCEPT ![c.endpoint] = c.edit]
            /\ overtaken' = IF c.edit < received[c.endpoint]
                            THEN overtaken \cup {c.edit}
                            ELSE overtaken
       ELSE UNCHANGED <<received, overtaken>>
    /\ UNCHANGED <<updating, updateTimeouts, timers, abortControllers, edits,
                   outcome, raised, failures, last, cleanups>>
    /\ UNCHANGED <<clientVars, gestureVars>>

\* The call settles: requestWithRetry returns or throws, and the caller's
\* continuation runs (performUpdate's for an update of the queue).
Settle(c, result, error) ==
    /\ calls' = calls \ {c}
    /\ outcome' = [outcome EXCEPT ![c.id] = Entry(c, result, error)]
    /\ IF c.edit # 0
       THEN PerformUpdateSettled(c, result)
       ELSE UNCHANGED <<updating, updateTimeouts, raised>>

\* The fetch of the current attempt ends with `resp`: fetchWithTimeout drops
\* the controller of its key; requestWithRetry returns on success, gives up
\* or waits for the backoff delay on failure.
Respond(c, resp) ==
    /\ c \in calls
    /\ c.phase = "fetch"
    /\ resp.kind = "http" => c.arrived
    /\ c.aborted => resp.kind = "abort"
    /\ abortControllers' = Unregistered(abortControllers, c)
    /\ requestCache' = IF AttemptSucceeds(resp) /\ IsGet(c.method)
                       THEN SetCache(requestCache, CacheKey(c), c.id, CacheTtl)
                       ELSE requestCache
    /\ UNCHANGED <<hits, cancelled, gestureVars>>
    /\ IF AttemptSucceeds(resp)
       THEN Settle(c, "ok", NoError)
       ELSE IF GivesUp(c, AttemptError(resp))
       THEN Settle(c, "failed", AttemptError(resp))
       ELSE /\ calls' = (calls \ {c})
                           \cup {[c EXCEPT !.phase = "backoff", !.left = BackoffDelay(c)]}
            /\ UNCHANGED <<updating, updateTimeouts, outcome, raised>>
    /\ UNCHANGED <<timers, remote, received, overtaken, edits, cleanups>>

\* The end of a fetch as the history of the direct requests keeps it:
\* `persistent` when every attempt of the call so far ended the same way,
\* `thrown` the error requestWithRetry throws when it gives up at this end
\* (throw lastError).
Ended(c, resp) ==
    [call |-> c.id, attempt |-> c.attempt, resp |-> resp,
     persistent |-> \/ c.attempt = 0
                    \/ last.call = c.id /\ last.resp = resp /\ last.persistent,
     thrown |-> IF ~AttemptSucceeds(resp) /\ GivesUp(c, AttemptError(resp))
                THEN AttemptError(resp)
                ELSE NoError]

\* await this.delay(delay) is over: the loop makes the next attempt.
BackoffElapses(c) ==
    /\ c \in calls
    /\ c.phase = "backoff"
    /\ c.left = 0
    /\ LET n == [c EXCEPT !.phase = "fetch", !.attempt = @ + 1,
                          !.at = Append(@, c.waited), !.arrived = FALSE,
                          !.aborted = FALSE]
       IN  /\ calls' = (calls \ {c}) \cup {n}
           /\ abortControllers' = Registered(abortControllers, n)
    /\ UNCHANGED <<updating, updateTimeouts, timers, remote, received, overtaken,
                   edits, outcome, raised, failures, last, cleanups>>
    /\ UNCHANGED <<clientVars, gestureVars>>

Due == \/ \E t \in timers : t.left = 0
       \/ \E c \in calls : c.phase = "backoff" /\ c.left = 0

Counting == \/ \E t \in timers : t.left > 0
            \/ \E c \in calls : c.phase = "backoff" /\ c.left > 0
            \/ \E e \in requestCache : e.left > 0

\* The milliseconds left of every setTimeout that is counting down, and of
\* every cache entry that has not reached its time-to-live.
Lefts == {t.left : t \in timers} \cup {c.left : c \in {d \in calls : d.phase = "backoff"}}
             \cup {e.left : e \in {f \in requestCache : f.left > 0}}

\* The time to the next timer that comes due.
NextDue == CHOOSE ms \in Lefts : \A other \in Lefts : ms <= other

\* Time passes up to the next due timer (or the next cache entry to reach its
\* time-to-live): every armed timer and every backoff delay comes closer by
\* that much, every cache entry grows older by that much.
Tick ==
    /\ Counting
    /\ ~Due
    /\ timers' = {[t EXCEPT !.left = @ - NextDue] : t \in timers}
    /\ calls' = {IF c.phase = "backoff"
                 THEN [c EXCEPT !.left = @ - NextDue, !.waited = @ + NextDue]
                 ELSE c : c \in calls}
    /\ requestCache' = {IF e.left > 0 THEN [e EXCEPT !.left = @ - NextDue] ELSE e :
                           e \in requestCache}
    /\ UNCHANGED <<updating, updateTimeouts, abortControllers, remote, received,
                   overtaken, edits, outcome, raised, failures, last, cleanups,
                   hits, cancelled, gestureVars>>

\* apiService.request(endpoint, options) with a method other than GET:
\* requestWithRetry skips the cache and makes its first attempt.
Request(method, endpoint, body, retries, retryDelay) ==
    /\ Len(outcome) < MaxRequests
    /\ method # "GET"
    /\ LET c == NewCall(Len(outcome) + 1, 0, method, endpoint, body, retries, retryDelay)
       IN  /\ calls' = calls \cup {c}
           /\ abortControllers' = Registered(abortControllers, c)
           /\ outcome' = Append(outcome, Entry(c, "pending", NoError))
    /\ UNCHANGED <<updating, updateTimeouts, timers, remote, received, overtaken,
                   edits, raised, failures, last, cleanups>>
    /\ UNCHANGED <<clientVars, gestureVars>>

\* options.body || '' of a request without a body
NoBody == <<>>

\* apiService.request(endpoint, options) with any method: requestWithRetry
\* answers from the cache when it reads it and finds a fresh entry, and makes
\* its first attempt otherwise.
RequestWithRetry(method, endpoint, body, cache, retries, retryDelay) ==
    /\ Len(outcome) < MaxCalls
    /\ LET c == NewCall(Len(outcome) + 1, 0, method, endpoint, body, retries, retryDelay)
           cached == IF ReadsCache(method, cache)
                     THEN GetFromCache(requestCache, CacheKey(c))
                     ELSE {}
       IN  IF cached # {}
           THEN /\ outcome' = Append(outcome, Entry([c EXCEPT !.at = <<>>], "cached", NoError))
                /\ hits' = hits \cup {[call |-> c.id, key |-> CacheKey(c), entry |-> e] :
                                          e \in cached}
                /\ UNCHANGED <<calls, abortControllers, requestCache>>
           ELSE /\ calls' = calls \cup {c}
                /\ abortControllers' = Registered(abortControllers, c)
                /\ outcome' = Append(outcome, Entry(c, "pending", NoError))
                /\ requestCache' = IF ReadsCache(method, cache)
                                   THEN CacheMissed(requestCache, CacheKey(c))
                                   ELSE requestCache
                /\ UNCHANGED hits
    /\ UNCHANGED <<updating, updateTimeouts, timers, remote, received, overtaken,
                   edits, raised, failures, last, cleanups, cancelled, gestureVars>>

\* overlayAPI.getAll(options): GET /overlays
GetAll(cache, retries) ==
    RequestWithRetry("GET", "overlays", NoBody, cache, retries, DefaultRetryDelay)

\* The fetches in flight.
InFlight == {c \in calls : c.phase = "fetch"}

\* The calls that wait in await this.delay(delay) for their next attempt.
Waiting == {c \in calls : c.phase = "backoff"}

\* The fetches in flight that a call of cancelRequest names: those of its
\* method, its body and its path (given as endpoint or as URL).
Matching(path, method, body) ==
    {c \in InFlight : /\ c.method = method
                      /\ Path(c.endpoint) = path \/ Url(c.endpoint) = path
                      /\ c.body = body}

\* controller.abort() for the controllers `found` in the registry: the fetch
\* a controller belongs to is aborted.
Aborted(found) ==
    {IF \E e \in found : e.call = c.id /\ e.attempt = c.attempt
     THEN [c EXCEPT !.aborted = TRUE]
     ELSE c : c \in calls}

\* cancelRequest(endpoint, { method, body }): the controller the registry
\* holds under createRequestKey(endpoint, options) is aborted and dropped.
\* `path` is what the caller passes as endpoint.
CancelRequest(path, method, body) ==
    /\ Len(cancelled) < MaxCancels
    /\ LET requestKey == CreateRequestKey(path, method, body)
           found == {e \in abortControllers : e.key = requestKey}
       IN  /\ calls' = Aborted(found)
           /\ abortControllers' = abortControllers \ found
           /\ cancelled' = Append(cancelled,
                  [all |-> FALSE, path |-> path, method |-> method, body |-> body,
                   inflight |-> {c.id : c \in Matching(path, method, body)},
                   aborted |-> {c.id : c \in {d \in Aborted(found) : d.aborted}},
                   waiting |-> {c.id : c \in {d \in Waiting : FetchKey(d) = requestKey}}])
    /\ UNCHANGED <<updating, updateTimeouts, timers, remote, received, overtaken,
                   edits, outcome, raised, failures, last, cleanups, requestCache, hits,
                   gestureVars>>

\* cancelAllRequests(): every controller of the registry is aborted, the
\* registry is cleared.
CancelAllRequests ==
    /\ Len(cancelled) < MaxCancels
    /\ calls' = Aborted(abortControllers)
    /\ abortControllers' = {}
    /\ cancelled' = Append(cancelled,
           [all |-> TRUE, path |-> <<>>, method |-> "", body |-> NoBody,
            inflight |-> {c.id : c \in InFlight},
            aborted |-> {c.id : c \in {d \in Aborted(abortControllers) : d.aborted}},
            waiting |-> {c.id : c \in Waiting}])
    /\ UNCHANGED <<updating, updateTimeouts, timers, remote, received, overtaken,
                   edits, outcome, raised, failures, last, cleanups, requestCache, hits,
                   gestureVars>>

\* ------------------------------------------------------ gesture engine

\* setTimeout(..., isMobile ? 200 : 150)
LongPressDelay == 150
LongPressDelayMobile == 200
\* timeSinceLastTap < 300
DoubleTapWindow == 300
\* Date.now() - lastTapTimeRef.current once it is more than the window
LongAgo == DoubleTapWindow + 1
\* setTimeout(..., 3000) of handleTouchEnd
DeselectDelay == 3000
\* Math.max(0, Math.min(90, ...))
MinPosition == 0
MaxPosition == 90
\* Math.max(5, Math.min(50, ...)) and Math.max(3, Math.min(30, ...))
MinWidth == 5
MaxWidth == 50
MinHeight == 3
MaxHeight == 30

\* At most so many touches and presses are made.
MaxGestures == 2

\* At most so many auto-deselect timers are pending at a time.
MaxDeselectTimers == 1

\* Touch.identifier of the fingers
TouchIds == {1, 2}

\* getBoundingClientRect() of the video container, in pixels
ContainerRect == [left |-> 10, top |-> 20, width |-> 200, height |-> 100]

\* Where a finger or the pointer can be (clientX, clientY): at 10%/10%,
\* 14%/13% and 18%/16% of the container, and at 130%/100% (outside of it).
\* The points lie on one line, so that every distance between two of them
\* is a whole number of percents.
Points ==
    {[clientX |-> 30, clientY |-> 30], [clientX |-> 38, clientY |-> 33],
     [clientX |-> 46, clientY |-> 36], [clientX |-> 270, clientY |-> 120]}

\* The combinations of isEditMode, isMobile and isTouchDevice: a desktop, a
\* phone, a touch-screen laptop, and a phone outside of edit mode.
PropsOptions ==
    {[isEditMode |-> TRUE, isMobile |-> FALSE, isTouchDevice |-> FALSE],
     [isEditMode |-> TRUE, isMobile |-> TRUE, isTouchDevice |-> TRUE],
     [isEditMode |-> FALSE, isMobile |-> TRUE, isTouchDevice |-> TRUE]}

\* overlay.position and overlay.size as the store gives them
OverlayOptions ==
    {[position |-> [x |-> 10, y |-> 10], size |-> [width |-> 10, height |-> 10]],
     [position |-> [x |-> 6, y |-> 4], size |-> [width |-> 40, height |-> 14]]}

Min(a, b) == IF a < b THEN a ELSE b
Max(a, b) == IF a > b THEN a ELSE b

\* Math.sqrt of the square of a whole number of percents
Sqrt(n) == CHOOSE r \in 0..200 : r * r = n

\* A size is a fraction <<numerator, denominator>> of percents: scaling by
\* currentDistance / initialDistance gives no whole number in general.
Whole(v) == <<v, 1>>

\* Math.min(hi, f) and Math.max(lo, f) of a fraction f and whole numbers
FracMin(hi, f) == IF hi * f[2] < f[1] THEN Whole(hi) ELSE f
FracMax(lo, f) == IF lo * f[2] > f[1] THEN Whole(lo) ELSE f

\* getTouchPosition(touch, containerRect): pixels to percents of the container
GetTouchPosition(touch, containerRect) ==
    [x |-> ((touch.clientX - containerRect.left) * 100) \div containerRect.width,
     y |-> ((touch.clientY - containerRect.top) * 100) \div containerRect.height]

\* getDistance(touch1, touch2) of two TouchInfo
GetDistance(touch1, touch2) ==
    LET dx == touch1.currentX - touch2.currentX
        dy == touch1.currentY - touch2.currentY
    IN  Sqrt(dx * dx + dy * dy)

\* e.touches: the fingers on the screen, in the order of their identifiers
Touches(fingers) ==
    LET ids == DOMAIN fingers
        touch(i) == [identifier |-> i, clientX |-> fingers[i].at.clientX,
                     clientY |-> fingers[i].at.clientY]
    IN  IF ids = {} THEN <<>>
        ELSE IF Cardinality(ids) = 1 THEN <<touch(CHOOSE i \in ids : TRUE)>>
        ELSE <<touch(1), touch(2)>>

NoTimer == [armed |-> FALSE, left |-> 0, touch |-> [clientX |-> 0, clientY |-> 0],
            position |-> [x |-> 0, y |-> 0]]

\* A clearTimers() that leaves the long-press timer as it is.
ClearTimersKeeps(timer) == timer

\* clearTimers(): the long-press timer is cleared (the double-tap timer is
\* never set)
ClearTimers(timer) == NoTimer

\* initialSize?: undefined
NoSize == [width |-> -1, height |-> -1]

\* useState<DragState>(...)
InitialDragState ==
    [isDragging |-> FALSE, isResizing |-> FALSE, resizeHandle |-> "",
     startPosition |-> [x |-> 0, y |-> 0], startSize |-> [width |-> 0, height |-> 0],
     startTouch |-> [x |-> 0, y |-> 0], initialDistance |-> 0, initialSize |-> NoSize]

NoEmission == [kind |-> "none"]
Nobody == <<"none", 0>>
Finger(id) == <<"touch", id>>
Mouse == <<"mouse", 0>>
NotPressed == [clientX |-> 0, clientY |-> 0]

\* A single-touch drag that does not clamp.
DragPositionUnclamped(startPosition, startTouch, currentPos) ==
    [x |-> startPosition.x + (currentPos.x - startTouch.x),
     y |-> startPosition.y + (currentPos.y - startTouch.y)]

\* handleTouchMove, single touch: newX, newY
DragPosition(startPosition, startTouch, currentPos) ==
    LET deltaX == currentPos.x - startTouch.x
        deltaY == currentPos.y - startTouch.y
    IN  [x |-> Max(MinPosition, Min(MaxPosition, startPosition.x + deltaX)),
         y |-> Max(MinPosition, Min(MaxPosition, startPosition.y + deltaY))]

\* handleGlobalMouseMove: newX, newY (the pointer becomes the overlay's centre)
MousePosition(currentPos, size) ==
    [x |-> Max(MinPosition, Min(MaxPosition, currentPos.x - size.width \div 2)),
     y |-> Max(MinPosition, Min(MaxPosition, currentPos.y - size.height \div 2))]

\* A pinch that clamps the anchor size before it scales it.
PinchSizeClampFirst(initialSize, initialDistance, currentDistance) ==
    [width |-> <<Max(MinWidth, Min(MaxWidth, initialSize.width)) * currentDistance,
                 initialDistance>>,
     height |-> <<Max(MinHeight, Min(MaxHeight, initialSize.height)) * currentDistance,
                  initialDistance>>]

\* handleTouchMove, two touches: scale = currentDistance / initialDistance,
\* newWidth, newHeight
PinchSize(initialSize, initialDistance, currentDistance) ==
    [width |-> FracMax(MinWidth, FracMin(MaxWidth,
                   <<initialSize.width * currentDistance, initialDistance>>)),
     height |-> FracMax(MinHeight, FracMin(MaxHeight,
                   <<initialSize.height * currentDistance, initialDistance>>))]

\* The points on the overlay o: the touchstart listener is the overlay's, a
\* finger that comes down elsewhere is not its business.
OnOverlay(o) ==
    {p \in Points :
        LET pos == GetTouchPosition(p, ContainerRect)
        IN  /\ o.position.x <= pos.x /\ pos.x <= o.position.x + o.size.width
            /\ o.position.y <= pos.y /\ pos.y <= o.position.y + o.size.height}

\* TouchInfo of a touch that has just been seen
NewTouchInfo(touch) ==
    LET pos == GetTouchPosition(touch, ContainerRect)
    IN  [identifier |-> touch.identifier, startX |-> pos.x, startY |-> pos.y,
         currentX |-> pos.x, currentY |-> pos.y]

\* A pinch that starts with two touches, selected or not.
StartsPinchUnselected(touches, selected) == Len(touches) = 2

\* handleTouchStart: touches.length === 2 && isSelected
StartsPinch(touches, selected) == Len(touches) = 2 /\ selected

\* handleTouchStart for the fingers that come down together, each at its
\* point: landing is a function from their identifiers to the points.  The
\* event of a device that reports no finger at all has no landing finger.
HandleTouchStart(landing) ==
    /\ DOMAIN landing \cap DOMAIN contacts = {}
    /\ DOMAIN landing = {} => DOMAIN contacts = {}
    /\ gestures < MaxGestures
    /\ gestures' = gestures + 1
    /\ contacts' = [i \in DOMAIN contacts \cup DOMAIN landing |->
                       IF i \in DOMAIN landing
                       THEN [down |-> landing[i], at |-> landing[i]]
                       ELSE contacts[i]]
    /\ emitted' = NoEmission
    /\ draggedSinceTap' =
          (draggedSinceTap /\ ~(props.isEditMode /\ Cardinality(DOMAIN contacts') = 1
                                   /\ lastTap >= DoubleTapWindow))
    /\ IF ~props.isEditMode
       THEN UNCHANGED <<isSelected, dragState, touchesRef, longPressTimer, lastTap>>
       ELSE LET touches == Touches(contacts')
                newTouches == [i \in DOMAIN contacts' |->
                                  NewTouchInfo(CHOOSE j \in Range(touches) : j.identifier = i)]
            IN  /\ touchesRef' = newTouches
                /\ IF Len(touches) = 1
                   THEN IF lastTap < DoubleTapWindow
                        THEN /\ longPressTimer' = ClearTimers(longPressTimer)
                             /\ isSelected' = FALSE
                             /\ lastTap' = LongAgo
                             /\ UNCHANGED dragState
                        ELSE /\ isSelected' = TRUE
                             /\ lastTap' = 0
                             /\ longPressTimer' =
                                   [armed |-> TRUE,
                                    left |-> IF props.isMobile THEN LongPressDelayMobile
                                             ELSE LongPressDelay,
                                    touch |-> [clientX |-> touches[1].clientX,
                                               clientY |-> touches[1].clientY],
                                    position |-> overlay.position]
                             /\ UNCHANGED dragState
                   ELSE IF StartsPinch(touches, isSelected)
                   THEN /\ longPressTimer' = ClearTimers(longPressTimer)
                        /\ dragState' = [dragState EXCEPT
                              !.isResizing = TRUE,
                              !.initialDistance = GetDistance(newTouches[touches[1].identifier],
                                                              newTouches[touches[2].identifier]),
                              !.initialSize = overlay.size,
                              !.startSize = overlay.size]
                        /\ isSelected' = TRUE
                        /\ UNCHANGED lastTap
                   ELSE /\ isSelected' = TRUE
                        /\ UNCHANGED <<dragState, longPressTimer, lastTap>>
    /\ UNCHANGED <<props, overlay, pressedAt, deselectTimers, dragBy, syncVars>>

\* The long-press timer runs: the overlay is dragged, from the overlay
\* position and the touch the timer was armed with.
LongPressFires ==
    /\ longPressTimer.armed
    /\ longPressTimer.left = 0
    /\ draggedSinceTap' = TRUE
    /\ dragState' = [dragState EXCEPT
          !.isDragging = TRUE,
          !.startPosition = longPressTimer.position,
          !.startTouch = GetTouchPosition(longPressTimer.touch, ContainerRect)]
    /\ dragBy' = IF \E i \in DOMAIN contacts : contacts[i].down = longPressTimer.touch
                 THEN Finger(CHOOSE i \in DOMAIN contacts :
                                 /\ contacts[i].down = longPressTimer.touch
                                 /\ \A j \in DOMAIN contacts :
                                       contacts[j].down = longPressTimer.touch => i <= j)
                 ELSE dragBy
    /\ longPressTimer' = NoTimer
    /\ emitted' = NoEmission
    /\ UNCHANGED <<props, overlay, pressedAt, gestures, isSelected, touchesRef, lastTap, deselectTimers,
                   contacts, syncVars>>

\* A handleTouchMove that resizes by the touches it tracks, however many
\* fingers the event lists.
HandleTouchMoveAnyCount(id, p) ==
    /\ id \in DOMAIN contacts
    /\ contacts[id].at # p
    /\ contacts' = [contacts EXCEPT ![id].at = p]
    /\ IF ~props.isEditMode \/ DOMAIN touchesRef = {}
       THEN /\ emitted' = NoEmission
            /\ UNCHANGED touchesRef
       ELSE LET touches == Touches(contacts')
                seen == {i \in DOMAIN touchesRef : \E t \in Range(touches) : t.identifier = i}
                posOf(i) == GetTouchPosition(CHOOSE t \in Range(touches) : t.identifier = i,
                                             ContainerRect)
                updatedTouches == [i \in DOMAIN touchesRef |->
                                      IF i \in seen
                                      THEN [touchesRef[i] EXCEPT !.currentX = posOf(i).x,
                                                                 !.currentY = posOf(i).y]
                                      ELSE touchesRef[i]]
                first == CHOOSE i \in DOMAIN updatedTouches :
                             \A j \in DOMAIN updatedTouches : i <= j
                second == CHOOSE i \in DOMAIN updatedTouches :
                              \A j \in DOMAIN updatedTouches : i >= j
            IN  /\ touchesRef' = updatedTouches
                /\ IF dragState.isDragging /\ Len(touches) = 1
                   THEN emitted' =
                           [kind |-> "position", by |-> Finger(touches[1].identifier),
                            value |-> DragPosition(dragState.startPosition,
                                                   dragState.startTouch,
                                                   GetTouchPosition(touches[1], ContainerRect))]
                   ELSE IF /\ dragState.isResizing
                           /\ dragState.initialDistance # 0
                           /\ dragState.initialSize # NoSize
                   THEN emitted' =
                           [kind |-> "size", by |-> Finger(id),
                            value |-> PinchSize(dragState.initialSize,
                                                dragState.initialDistance,
                                                GetDistance(updatedTouches[first],
                                                            updatedTouches[second]))]
                   ELSE emitted' = NoEmission
    /\ UNCHANGED <<props, overlay, pressedAt, draggedSinceTap, gestures, isSelected, dragState, longPressTimer, lastTap,
                   deselectTimers, dragBy, syncVars>>

\* handleTouchMove for a finger that moves to point p
HandleTouchMove(id, p) ==
    /\ id \in DOMAIN contacts
    /\ contacts[id].at # p
    /\ contacts' = [contacts EXCEPT ![id].at = p]
    /\ IF ~props.isEditMode \/ DOMAIN touchesRef = {}
       THEN /\ emitted' = NoEmission
            /\ UNCHANGED touchesRef
       ELSE LET touches == Touches(contacts')
                seen == {i \in DOMAIN touchesRef : \E t \in Range(touches) : t.identifier = i}
                posOf(i) == GetTouchPosition(CHOOSE t \in Range(touches) : t.identifier = i,
                                             ContainerRect)
                updatedTouches == [i \in DOMAIN touchesRef |->
                                      IF i \in seen
                                      THEN [touchesRef[i] EXCEPT !.currentX = posOf(i).x,
                                                                 !.currentY = posOf(i).y]
                                      ELSE touchesRef[i]]
            IN  /\ touchesRef' = updatedTouches
                /\ IF dragState.isDragging /\ Len(touches) = 1
                   THEN emitted' =
                           [kind |-> "position", by |-> Finger(touches[1].identifier),
                            value |-> DragPosition(dragState.startPosition,
                                                   dragState.startTouch,
                                                   GetTouchPosition(touches[1], ContainerRect))]
                   ELSE IF /\ dragState.isResizing /\ Len(touches) = 2
                           /\ touches[1].identifier \in DOMAIN updatedTouches
                           /\ touches[2].identifier \in DOMAIN updatedTouches
                           /\ dragState.initialDistance # 0
                           /\ dragState.initialSize # NoSize
                   THEN emitted' =
                           [kind |-> "size", by |-> Finger(id),
                            value |-> PinchSize(dragState.initialSize,
                                                dragState.initialDistance,
                                                GetDistance(updatedTouches[touches[1].identifier],
                                                            updatedTouches[touches[2].identifier]))]
                   ELSE emitted' = NoEmission
    /\ UNCHANGED <<props, overlay, pressedAt, draggedSinceTap, gestures, isSelected, dragState, longPressTimer, lastTap,
                   deselectTimers, dragBy, syncVars>>

\* An end of the operations that ends the drag only.
EndOperationsDragOnly(prev) == [prev EXCEPT !.isDragging = FALSE]

\* handleTouchEnd, no touch remaining: end drag or resize operations
EndOperations(prev) ==
    [prev EXCEPT !.isDragging = FALSE, !.isResizing = FALSE, !.resizeHandle = ""]

\* handleTouchEnd for a finger that lifts
HandleTouchEnd(id) ==
    /\ id \in DOMAIN contacts
    /\ (props.isEditMode /\ DOMAIN contacts = {id})
          => Cardinality(deselectTimers) < MaxDeselectTimers
    /\ contacts' = [i \in DOMAIN contacts \ {id} |-> contacts[i]]
    /\ emitted' = NoEmission
    /\ IF ~props.isEditMode
       THEN UNCHANGED <<dragState, touchesRef, longPressTimer, deselectTimers, dragBy>>
       ELSE /\ longPressTimer' = ClearTimers(longPressTimer)
            /\ touchesRef' = [i \in DOMAIN touchesRef \cap DOMAIN contacts' |-> touchesRef[i]]
            /\ IF DOMAIN contacts' = {}
               THEN /\ dragState' = EndOperations(dragState)
                    /\ deselectTimers' = deselectTimers \cup
                          {[left |-> DeselectDelay,
                            wasEditing |-> dragState.isDragging \/ dragState.isResizing]}
                    /\ dragBy' = Nobody
               ELSE UNCHANGED <<dragState, deselectTimers, dragBy>>
    /\ UNCHANGED <<props, overlay, pressedAt, draggedSinceTap, gestures, isSelected, lastTap, syncVars>>

\* The browser cancels a touch (touchcancel): the finger is not on the screen
\* any more, and the component, which has no listener for it, is not told.
TouchCancel(id) ==
    /\ id \in DOMAIN contacts
    /\ contacts' = [i \in DOMAIN contacts \ {id} |-> contacts[i]]
    /\ emitted' = NoEmission
    /\ UNCHANGED <<props, overlay, pressedAt, draggedSinceTap, gestures, isSelected, dragState, touchesRef,
                   longPressTimer, lastTap, deselectTimers, dragBy, syncVars>>

\* The auto-deselect timer of a handleTouchEnd runs, with the dragState that
\* handleTouchEnd saw.
DeselectFires(t) ==
    /\ t \in deselectTimers
    /\ t.left = 0
    /\ deselectTimers' = deselectTimers \ {t}
    /\ isSelected' = IF ~t.wasEditing THEN FALSE ELSE isSelected
    /\ emitted' = NoEmission
    /\ UNCHANGED <<props, overlay, pressedAt, draggedSinceTap, gestures, dragState, touchesRef, longPressTimer, lastTap,
                   contacts, dragBy, syncVars>>

\* handleMouseDown: the press at point p of the overlay, outside of a resize
\* handle
HandleMouseDown(p) ==
    /\ draggedSinceTap' = TRUE
    /\ pressedAt' = p
    /\ props.isEditMode
    /\ gestures < MaxGestures
    /\ gestures' = gestures + 1
    /\ ~props.isTouchDevice
    /\ isSelected' = TRUE
    /\ dragState' = [dragState EXCEPT !.isDragging = TRUE,
                                      !.startPosition = overlay.position,
                                      !.startTouch = [x |-> 0, y |-> 0]]
    /\ dragBy' = Mouse
    /\ emitted' = NoEmission
    /\ UNCHANGED <<props, overlay, touchesRef, longPressTimer, lastTap, deselectTimers,
                   contacts, syncVars>>

\* handleGlobalMouseMove: the document's mousemove listener while dragging
HandleGlobalMouseMove(p) ==
    /\ ~props.isTouchDevice
    /\ dragState.isDragging
    /\ emitted' = [kind |-> "position", by |-> Mouse, at |-> p,
                   value |-> MousePosition(GetTouchPosition(p, ContainerRect), overlay.size)]
    /\ UNCHANGED <<props, overlay, pressedAt, draggedSinceTap, gestures, isSelected, dragState, touchesRef, longPressTimer,
                   lastTap, deselectTimers, contacts, dragBy, syncVars>>

\* A mouseup listener that does not end the drag.
HandleGlobalMouseUpIgnored ==
    /\ pressedAt' = NotPressed
    /\ ~props.isTouchDevice
    /\ dragState.isDragging
    /\ dragBy' = Nobody
    /\ emitted' = NoEmission
    /\ UNCHANGED <<props, overlay, draggedSinceTap, gestures, isSelected, dragState,
                   touchesRef, longPressTimer, lastTap, deselectTimers, contacts, syncVars>>

\* handleGlobalMouseUp: the document's mouseup listener while dragging
HandleGlobalMouseUp ==
    /\ pressedAt' = NotPressed
    /\ ~props.isTouchDevice
    /\ dragState.isDragging
    /\ dragState' = [dragState EXCEPT !.isDragging = FALSE]
    /\ dragBy' = Nobody
    /\ emitted' = NoEmission
    /\ UNCHANGED <<props, overlay, draggedSinceTap, gestures, isSelected, touchesRef, longPressTimer, lastTap,
                   deselectTimers, contacts, syncVars>>

\* The resize handles of the desktop: 'bottom-right', 'bottom', 'right'
ResizeHandles == {"bottom-right", "bottom", "right"}

\* Where the handle sits (clientX, clientY): on the overlay's bottom-right
\* corner, in the middle of its bottom edge, in the middle of its right edge.
HandleAt(handle, o) ==
    LET right == IF handle = "bottom" THEN o.position.x + o.size.width \div 2
                 ELSE o.position.x + o.size.width
        bottom == IF handle = "right" THEN o.position.y + o.size.height \div 2
                  ELSE o.position.y + o.size.height
    IN  [clientX |-> ContainerRect.left + (right * ContainerRect.width) \div 100,
         clientY |-> ContainerRect.top + (bottom * ContainerRect.height) \div 100]

\* handleResizeMouseDown(handle) at point p; the handles are rendered while
\* the overlay is neither dragged nor resized.
HandleResizeMouseDown(handle, p) ==
    /\ props.isEditMode
    /\ gestures < MaxGestures
    /\ gestures' = gestures + 1
    /\ ~props.isTouchDevice
    /\ ~dragState.isDragging
    /\ ~dragState.isResizing
    /\ dragState' = [dragState EXCEPT !.isResizing = TRUE,
                                      !.resizeHandle = handle,
                                      !.startSize = overlay.size,
                                      !.startTouch = [x |-> p.clientX, y |-> p.clientY]]
    /\ pressedAt' = p
    /\ emitted' = NoEmission
    /\ UNCHANGED <<props, overlay, draggedSinceTap, isSelected, touchesRef, longPressTimer, lastTap,
                   deselectTimers, contacts, dragBy, syncVars>>

\* The mouse button is released while the overlay is not dragged: the
\* document's mouseup listener is registered while isDragging only, so the
\* component is not told.
MouseUpUnheard ==
    /\ ~props.isTouchDevice
    /\ pressedAt # NotPressed
    /\ ~dragState.isDragging
    /\ pressedAt' = NotPressed
    /\ emitted' = NoEmission
    /\ UNCHANGED <<props, overlay, draggedSinceTap, gestures, isSelected, dragState, touchesRef,
                   longPressTimer, lastTap, deselectTimers, contacts, dragBy, syncVars>>

\* The milliseconds to the next thing the time brings: a timer of the
\* component coming due, the end of the double-tap window, or the first
\* millisecond after it.
GestureLefts ==
    {t.left : t \in deselectTimers}
        \cup (IF longPressTimer.armed THEN {longPressTimer.left} ELSE {})
        \cup (IF lastTap < DoubleTapWindow THEN {DoubleTapWindow - lastTap}
              ELSE IF lastTap < LongAgo THEN {LongAgo - lastTap} ELSE {})

GestureNextDue == CHOOSE ms \in GestureLefts : \A other \in GestureLefts : ms <= other

\* Time passes up to the next of them.
GestureTick ==
    /\ GestureLefts # {}
    /\ GestureNextDue > 0
    /\ longPressTimer' = IF longPressTimer.armed
                         THEN [longPressTimer EXCEPT !.left = @ - GestureNextDue]
                         ELSE longPressTimer
    /\ deselectTimers' = {[t EXCEPT !.left = @ - GestureNextDue] : t \in deselectTimers}
    /\ lastTap' = Min(LongAgo, lastTap + GestureNextDue)
    /\ emitted' = NoEmission
    /\ UNCHANGED <<props, overlay, pressedAt, draggedSinceTap, gestures, isSelected, dragState, touchesRef, contacts, dragBy,
                   syncVars>>

\* ------------------------------------------------------- specification

InitialRemote ==
    [ov \in Overlays |-> [f \in Fields |-> IF f = "position" THEN <<10, 10>> ELSE <<20, 20>>]]

InitSync ==
    /\ updating = <<>>
    /\ updateTimeouts = [ov \in Overlays |-> 0]
    /\ timers = {}
    /\ calls = {}
    /\ abortControllers = {}
    /\ remote = InitialRemote
    /\ received = [ov \in Overlays |-> 0]
    /\ overtaken = {}
    /\ edits = <<>>
    /\ outcome = <<>>
    /\ raised = 0
    /\ failures = 0
    /\ last = NoFetch
    /\ cleanups = 0
    /\ requestCache = {}
    /\ hits = {}
    /\ cancelled = <<>>

\* A DraggableOverlay as it is mounted, with no finger on the screen.
InitComponent(p, o) ==
    /\ props = p
    /\ overlay = o
    /\ isSelected = FALSE
    /\ dragState = InitialDragState
    /\ touchesRef = <<>>
    /\ longPressTimer = NoTimer
    /\ lastTap = LongAgo
    /\ deselectTimers = {}
    /\ contacts = <<>>
    /\ dragBy = Nobody
    /\ gestures = 0
    /\ draggedSinceTap = FALSE
    /\ pressedAt = NotPressed
    /\ emitted = NoEmission

Init ==
    /\ InitSync
    /\ InitComponent([isEditMode |-> TRUE, isMobile |-> FALSE, isTouchDevice |-> FALSE],
                     [position |-> [x |-> 10, y |-> 10],
                      size |-> [width |-> 10, height |-> 10]])

\* The overlays that are mounted: on a touch device either of them, on a
\* device with a mouse the wide one.
Mounts ==
    {m \in [props : PropsOptions, overlay : OverlayOptions] :
        m.props.isTouchDevice \/ m.overlay.size.width = 40}

InitGesture ==
    /\ InitSync
    /\ \E m \in Mounts : InitComponent(m.props, m.overlay)

Responses == HttpResponses \cup Rejections

\* The persistence queue over the request client: the edits of one overlay.
Next ==
    \/ \E ov \in Edited, i \in BOOLEAN : UpdatePosition(ov, ValueOf(Len(edits) + 1), i)
    \/ \E ov \in Edited, i \in BOOLEAN : UpdateSize(ov, ValueOf(Len(edits) + 1), i)
    \/ \E t \in timers : TimerFires(t)
    \/ Cleanup
    \/ \E c \in calls : Deliver(c)
    \/ \E c \in calls, r \in Responses :
          /\ AttemptSucceeds(r) \/ failures < MaxFailures
          /\ Respond(c, r)
          /\ failures' = IF AttemptSucceeds(r) THEN failures ELSE failures + 1
          /\ UNCHANGED last
    \/ \E c \in calls : BackoffElapses(c)
    \/ Tick

Spec == Init /\ [][Next]_vars

\* The request client alone: direct requests with their own options.
NextClient ==
    \/ \E retries \in RetriesOptions, retryDelay \in DelayOptions :
          Request("PUT", "ov1", Body("position", ValueOf(1)), retries, retryDelay)
    \/ \E c \in calls : Deliver(c)
    \/ \E c \in calls, r \in Responses :
          /\ Respond(c, r)
          /\ last' = Ended(c, r)
          /\ UNCHANGED failures
    \/ \E c \in calls : BackoffElapses(c)
    \/ Tick

SpecClient == Init /\ [][NextClient]_vars

\* What goes on by itself once a request was made: a fetch ends (with a
\* response, with a network failure, or at the latest with the abort of its
\* timeout), time passes, a backoff delay that is over starts the next attempt.
ClientProgress ==
    \/ \E c \in calls, r \in Responses :
          /\ Respond(c, r)
          /\ last' = Ended(c, r)
          /\ UNCHANGED failures
    \/ \E c \in calls : BackoffElapses(c)
    \/ Tick

\* The request client alone, in which no fetch and no timer hangs for ever.
SpecClientFair == Init /\ [][NextClient]_vars /\ WF_vars(ClientProgress)

\* The paths a caller can pass to cancelRequest for GET /overlays: the
\* endpoint, or the full URL.
CancelPaths == {Path("overlays"), Url("overlays")}

\* The request client with its cache and its cancellation: list requests
\* (getAll), a direct update, cancelRequest and cancelAllRequests.
NextCache ==
    \/ \E cache \in CacheOptions, retries \in GetRetriesOptions : GetAll(cache, retries)
    \/ RequestWithRetry("PUT", "ov1", Body("position", ValueOf(1)), "undefined",
                        0, DefaultRetryDelay)
    \/ \E path \in CancelPaths : CancelRequest(path, "GET", NoBody)
    \/ CancelAllRequests
    \/ \E c \in calls : Deliver(c)
    \/ \E c \in calls, r \in Responses :
          /\ Respond(c, r)
          /\ last' = Ended(c, r)
          /\ UNCHANGED failures
    \/ \E c \in calls : BackoffElapses(c)
    \/ Tick

SpecCache == Init /\ [][NextCache]_vars

\* Attempts that fail in one run of the queue under two overlays.
MaxPairFailures == 1

\* What a fetch ends with when two overlays are edited: the update is stored
\* (200), refused for good (404), or the network fails.
PairResponses ==
    {[kind |-> "http", status |-> 200, readable |-> TRUE],
     [kind |-> "http", status |-> 404, readable |-> TRUE],
     [kind |-> "network"]}

\* The persistence queue under the edits of two overlays.
NextPair ==
    \/ \E ov \in Overlays, i \in BOOLEAN : UpdatePosition(ov, ValueOf(Len(edits) + 1), i)
    \/ \E ov \in Overlays, i \in BOOLEAN : UpdateSize(ov, ValueOf(Len(edits) + 1), i)
    \/ \E t \in timers : TimerFires(t)
    \/ \E c \in calls : Deliver(c)
    \/ \E c \in calls, r \in PairResponses :
          /\ AttemptSucceeds(r) \/ failures < MaxPairFailures
          /\ Respond(c, r)
          /\ failures' = IF AttemptSucceeds(r) THEN failures ELSE failures + 1
          /\ UNCHANGED last
    \/ \E c \in calls : BackoffElapses(c)
    \/ Tick

SpecPair == Init /\ [][NextPair]_vars

\* What the event loop does by itself: a timer that is due runs, a backoff
\* delay that is over ends, and time passes.
QueueProgress ==
    \/ \E t \in timers : TimerFires(t)
    \/ \E c \in calls : BackoffElapses(c)
    \/ Tick

\* The queue under the edits of two overlays, in which no due timer waits
\* for ever and time does not stop.
SpecPairFair == Init /\ [][NextPair]_vars /\ WF_vars(QueueProgress)

\* The identifier that the browser gives to the next finger: the lowest
\* that no finger on the screen has.
NextIdentifier ==
    CHOOSE id \in TouchIds \ DOMAIN contacts :
        \A other \in TouchIds \ DOMAIN contacts : id <= other

\* One overlay under the fingers and the pointer.
NextGesture ==
    \/ \E p \in OnOverlay(overlay) :
          DOMAIN contacts # TouchIds /\ HandleTouchStart(NextIdentifier :> p)
    \/ \E p, q \in OnOverlay(overlay) : HandleTouchStart((1 :> p) @@ (2 :> q))
    \/ HandleTouchStart(<<>>)
    \/ LongPressFires
    \/ \E id \in TouchIds, p \in Points : HandleTouchMove(id, p)
    \/ \E id \in TouchIds : HandleTouchEnd(id)
    \/ \E id \in TouchIds : TouchCancel(id)
    \/ \E t \in deselectTimers : DeselectFires(t)
    \/ \E p \in OnOverlay(overlay) : HandleMouseDown(p)
    \/ \E p \in Points : HandleGlobalMouseMove(p)
    \/ HandleGlobalMouseUp
    \/ MouseUpUnheard
    \/ \E handle \in ResizeHandles : HandleResizeMouseDown(handle, HandleAt(handle, overlay))
    \/ GestureTick

SpecGesture == InitGesture /\ [][NextGesture]_vars

\* --------------------------------------------------------------- claims

\* The edits whose update was initiated (performUpdate ran).
Sent == {outcome[i].edit : i \in DOMAIN outcome} \ {0}

Armed(h) == \E t \in timers : t.h = h

EditsOf(ov) == {i \in DOMAIN edits : edits[i].ov = ov}

\* Every edit so far is a debounced one, as the gestures make them.
OnlyDebouncedEdits == \A i \in DOMAIN edits : ~edits[i].immediate

\* C1: of two or more non-immediate position edits of one overlay made within
\* 500 ms, only the last is sent: no update is ever initiated for a position
\* edit that a later non-immediate position edit of the same overlay followed
\* within its 500 ms window (in runs of debounced edits only).
C1_BurstSendsOnlyLastEdit ==
    OnlyDebouncedEdits =>
        \A i \in DOMAIN edits : \A j \in edits[i].within :
            (edits[i].field = "position" /\ edits[j].field = "position") => i \notin Sent

\* C2: at every moment at most one debounce timer is armed per overlay id
\* (in runs of debounced edits only, without cleanup).
C2_OneArmedTimerPerOverlay ==
    (OnlyDebouncedEdits /\ cleanups = 0) =>
        \A ov \in Overlays : Cardinality({t \in timers : t.ov = ov}) <= 1

\* C3: the update requests of one overlay reach the remote store in the order
\* of their edits: no request arrives after the request of a later edit (in
\* runs of debounced edits only, in which no attempt fails).
C3_UpdatesArriveInEditOrder ==
    (OnlyDebouncedEdits /\ failures = 0) => overtaken = {}

\* C4: when non-immediate edits of the position and of the size of one overlay
\* fall into one window, neither field's last edit is dropped: the latest edit
\* of each field is waiting in its window or has been sent (no cleanup), and
\* every request carries one changed field only.
C4_LatestOfEachFieldIsSent ==
    /\ \A c \in calls : Cardinality(DOMAIN c.body) = 1
    /\ cleanups = 0 =>
         \A ov \in Overlays : \A f \in Fields :
            LET mine == {i \in EditsOf(ov) : edits[i].field = f}
            IN  (mine # {} /\ \A i \in EditsOf(ov) : ~edits[i].immediate) =>
                   LET latest == CHOOSE i \in mine : \A k \in mine : k <= i
                   IN  Armed(latest) \/ latest \in Sent

\* C5: an immediate edit initiates its network update within the call: the
\* step that makes the edit leaves the first fetch of its update in flight,
\* with its controller registered, and arms no timer for it.
C5_ImmediateSendsSynchronously ==
    [][(Len(edits') = Len(edits) + 1 /\ edits'[Len(edits')].immediate) =>
          LET h == Len(edits')
              e == edits'[h]
          IN  /\ \E c \in calls' \ calls :
                    /\ c.edit = h
                    /\ c.method = "PUT"
                    /\ c.endpoint = e.ov
                    /\ c.body = Body(e.field, e.value)
                    /\ c.phase = "fetch"
                    /\ c.attempt = 0
                    /\ \E r \in abortControllers' : r.call = c.id /\ r.key = FetchKey(c)
              /\ ~\E t \in timers' : t.h = h]_vars

C5_Witness ==
    \E c \in calls :
        /\ c.edit = Len(edits)
        /\ edits[c.edit].immediate
        /\ c.phase = "fetch"
        /\ c.attempt = 0
        /\ \E t \in timers : t.ov = c.endpoint

\* C6: isUpdating(overlayId) is true whenever an edit of the overlay waits in
\* its debounce window or its update is in flight (in runs of debounced edits
\* only, without cleanup).
C6_PendingWhileWaitingOrInFlight ==
    (OnlyDebouncedEdits /\ cleanups = 0) =>
        \A ov \in Overlays :
            ((\E t \in timers : t.ov = ov) \/ (\E c \in calls : c.edit # 0 /\ c.endpoint = ov))
                => ov \in Range(updating)

\* C7: when the update of an overlay fails for good, the queue swallows the
\* error (nothing escapes performUpdate), sends nothing again (no call, no
\* timer, no fetch is started by that step) and clears the overlay's flag.
C7_FailureIsSwallowedAndFlagCleared ==
    [][\A i \in DOMAIN outcome :
          (outcome[i].edit # 0 /\ outcome[i].result = "pending"
              /\ outcome'[i].result = "failed") =>
             /\ raised' = raised
             /\ Len(outcome') = Len(outcome)
             /\ calls' \subseteq calls
             /\ timers' = timers
             /\ edits[outcome[i].edit].ov \notin Range(updating')]_vars

C7_Witness ==
    \E i \in DOMAIN outcome :
        /\ outcome[i].edit # 0
        /\ outcome[i].result = "failed"
        /\ Len(outcome[i].at) = UpdateRetries + 1
        /\ raised = 0
        /\ edits[outcome[i].edit].ov \notin Range(updating)

\* The call the latest fetch end belongs to, while it waits for a retry of
\* that very attempt.
RetriedAfterLast(c) ==
    c.id = last.call /\ c.attempt = last.attempt /\ c.phase = "backoff"

\* C8: a 4xx response other than 408 is never retried: no call waits for a
\* retry after its attempt ended with such a response (a 404 ends the call
\* with that attempt).
C8_ClientErrorIsNeverRetried ==
    \A c \in calls :
        (RetriedAfterLast(c) /\ last.resp.kind = "http") =>
            ~(last.resp.status >= 400 /\ last.resp.status < 500 /\ last.resp.status # 408)

\* Call i has failed and every attempt of it ended with an HTTP 500.
FailedWith500(i) ==
    /\ outcome[i].result = "failed"
    /\ last.call = i
    /\ last.resp = [kind |-> "http", status |-> 500, readable |-> TRUE]
    /\ last.persistent

DefaultOptions(i) ==
    outcome[i].retries = DefaultRetries /\ outcome[i].retryDelay = DefaultRetryDelay

IsPrefix(s, t) == Len(s) <= Len(t) /\ \A k \in DOMAIN s : s[k] = t[k]

\* C9 as stated: with retries=3 and retryDelay=1000 a call that fails on a
\* persistent 500 made its four attempts at 0, ~1000, ~2000 and ~4000 ms.
C9_AttemptsAt_0_1000_2000_4000 ==
    \A i \in DOMAIN outcome :
        (DefaultOptions(i) /\ FailedWith500(i)) => outcome[i].at = <<0, 1000, 2000, 4000>>

\* C9 amended: with retries=3 and retryDelay=1000 the attempts are made at 0,
\* ~1000, ~3000 and ~7000 ms (after delays of 1000, 2000 and 4000 ms), and a
\* call that fails on a 500 has made all four.
C9_AttemptsAt_0_1000_3000_7000 ==
    \A i \in DOMAIN outcome :
        DefaultOptions(i) =>
            /\ IsPrefix(outcome[i].at, <<0, 1000, 3000, 7000>>)
            /\ FailedWith500(i) => Len(outcome[i].at) = 4

C9_Witness ==
    \E i \in DOMAIN outcome :
        /\ DefaultOptions(i)
        /\ FailedWith500(i)
        /\ outcome[i].at = <<0, 1000, 3000, 7000>>

\* The attempt times of every call, settled or not.
AttemptTimes ==
    {[at |-> c.at, retryDelay |-> c.retryDelay] : c \in calls}
        \cup {[at |-> outcome[i].at, retryDelay |-> outcome[i].retryDelay] : i \in DOMAIN outcome}

\* C10: the delay before the n-th retry is retryDelay * 2^(n-1): it is what
\* lies between attempt n and attempt n+1, and what a call in its n-th
\* backoff has waited and has left to wait.
C10_BackoffDoubles ==
    /\ \A a \in AttemptTimes : \A n \in 1..(Len(a.at) - 1) :
          a.at[n + 1] - a.at[n] = a.retryDelay * 2 ^ (n - 1)
    /\ \A c \in calls :
          c.phase = "backoff" =>
             (c.waited - c.at[Len(c.at)]) + c.left = c.retryDelay * 2 ^ c.attempt

C10_Witness ==
    \E a \in AttemptTimes :
        /\ Len(a.at) = DefaultRetries + 1
        /\ a.retryDelay = 2 * DefaultRetryDelay
        /\ a.at[4] - a.at[3] = 4 * a.retryDelay

\* Call i has failed, and it is the call whose fetch ended last.
FailedLast(i) == outcome[i].result = "failed" /\ last.call = i

ErrorCodes ==
    {"NETWORK_ERROR", "TIMEOUT_ERROR", "SERVER_ERROR", "CLIENT_ERROR", "UNKNOWN_ERROR"}

\* C11: every call of the request client ends after at most retries+1 network
\* attempts: no call is ever at an attempt beyond `retries`, a call that failed
\* on a retryable error has made exactly retries+1 attempts and throws the
\* typed error of its last attempt, and every call that was made settles.
C11_CallEndsWithinRetriesPlusOne ==
    /\ [](\A c \in calls : c.attempt <= c.retries /\ Len(c.at) = c.attempt + 1)
    /\ [](\A i \in DOMAIN outcome :
            /\ Len(outcome[i].at) <= outcome[i].retries + 1
            /\ FailedLast(i) =>
                  /\ last.thrown = AttemptError(last.resp)
                  /\ last.thrown.code \in ErrorCodes
                  /\ last.thrown.retryable => Len(outcome[i].at) = outcome[i].retries + 1)
    /\ (outcome # <<>>) ~> (outcome # <<>> /\ outcome[1].result # "pending")

C11_Witness ==
    \E i \in DOMAIN outcome :
        /\ FailedLast(i)
        /\ outcome[i].retries = UpdateRetries
        /\ Len(outcome[i].at) = UpdateRetries + 1
        /\ last.thrown = CreateAPIError(0, "NETWORK_ERROR")

\* C12: the error of a failed call is a typed error whose retryable flag is
\* false when the call failed on a 4xx response other than 408.
C12_ClientErrorIsNotRetryable ==
    \A i \in DOMAIN outcome :
        (/\ FailedLast(i)
         /\ last.resp.kind = "http"
         /\ last.resp.status >= 400 /\ last.resp.status < 500
         /\ last.resp.status # 408)
            => last.thrown.code \in ErrorCodes /\ ~last.thrown.retryable

\* C13: a list request (getAll, as the application calls it: without a cache
\* option) made while the cache holds a fresh response for its key is
\* answered from the cache: the step starts no network call.
C13_RepeatedListIsServedFromCache ==
    [][Len(outcome') = Len(outcome) + 1 =>
          \A c \in calls' \ calls :
              ~(IsGet(c.method) /\ GetFromCache(requestCache, CacheKey(c)) # {})]_vars

\* C14: a call is answered from the cache only by an entry of its own key
\* whose age is below the time-to-live and that a successful GET stored; the
\* cache holds responses of successful GETs only, and every call of another
\* method (every call that was not answered from the cache) makes a network
\* attempt.
C14_CacheServesFreshGetOnly ==
    /\ \A h \in hits :
          /\ h.entry.key = h.key
          /\ h.key[1] = "GET"
          /\ h.entry.left > 0 /\ h.entry.left <= CacheTtl
          /\ h.entry.by < h.call
          /\ outcome[h.entry.by].result = "ok"
    /\ \A e \in requestCache : e.key[1] = "GET" /\ outcome[e.by].result = "ok"
    /\ \A i \in DOMAIN outcome :
          outcome[i].at = <<>> => \E h \in hits : h.call = i

C14_Witness ==
    \E h \in hits :
        /\ outcome[h.call].result = "cached"
        /\ outcome[h.call].at = <<>>
        /\ outcome[h.entry.by].result = "ok"

\* C15: cancelRequest called with the method, the endpoint and the body of
\* requests in flight aborts them.
C15_CancelAbortsTheRequest ==
    \A k \in Range(cancelled) :
        (~k.all /\ k.path = Path("overlays")) => k.inflight \subseteq k.aborted

\* C16: cancelAllRequests aborts every request in flight and leaves the
\* registry empty, and every fetch in flight (that was not aborted) has its
\* own controller in the registry.
C16_CancelAllAbortsEveryRequest ==
    /\ \A k \in Range(cancelled) : k.all => k.inflight \subseteq k.aborted
    /\ (cancelled # <<>> /\ cancelled[Len(cancelled)].all /\ InFlight = {})
           => abortControllers = {}
    /\ \A c \in InFlight :
          ~c.aborted => \E e \in abortControllers : e.call = c.id /\ e.attempt = c.attempt


C18_DragFollowsTheContact ==
    \A id \in TouchIds :
        (emitted.kind = "position" /\ emitted.by = Finger(id)) =>
            LET down == GetTouchPosition(contacts[id].down, ContainerRect)
                now == GetTouchPosition(contacts[id].at, ContainerRect)
                rawX == overlay.position.x + (now.x - down.x)
                rawY == overlay.position.y + (now.y - down.y)
            IN  /\ emitted.value.x = (IF rawX < 0 THEN 0 ELSE IF rawX > 90 THEN 90 ELSE rawX)
                /\ emitted.value.y = (IF rawY < 0 THEN 0 ELSE IF rawY > 90 THEN 90 ELSE rawY)


C20_PinchKeepsTheAspectRatio ==
    emitted.kind = "size" =>
        emitted.value.width[1] * emitted.value.height[2] * dragState.initialSize.height
            = emitted.value.height[1] * emitted.value.width[2] * dragState.initialSize.width


\* C21: a touch start of a single finger that comes at most 300 ms after the
\* start of the tap before it cancels the gesture timers and toggles the
\* selection at once, and the overlay has not been dragged since the first
\* of the two taps began and is not dragged now.
C21_DoubleTapTogglesAndNeverDrags ==
    [][(/\ props.isEditMode
        /\ DOMAIN contacts = {}
        /\ Cardinality(DOMAIN contacts') = 1
        /\ lastTap <= 300)
          => (/\ ~longPressTimer'.armed
              /\ isSelected' = ~isSelected
              /\ ~draggedSinceTap
              /\ ~dragState'.isDragging)]_vars


\* C22: by touch the overlay becomes dragged only when the long-press timer
\* runs while exactly one finger is on the screen, the finger that armed the
\* timer and has been down since; and a finger emits a position only while
\* the overlay is dragged.
C22_DragOnlyByHeldSingleContact ==
    [][/\ (~dragState.isDragging /\ dragState'.isDragging /\ dragBy' # Mouse)
            => /\ Cardinality(DOMAIN contacts) = 1
               /\ \E id \in DOMAIN contacts :
                     /\ dragBy' = Finger(id)
                     /\ contacts[id].down = longPressTimer.touch
       /\ (emitted'.kind = "position" /\ emitted'.by # Mouse) => dragState.isDragging]_vars


\* C23: when a second finger arrives while the overlay is selected and the
\* long press has not run, the pending long-press timer is cancelled, the
\* overlay's size and the distance of the two fingers become the anchors of
\* the resize, and the overlay is resized.
C23_SecondContactStartsResize ==
    [][(/\ props.isEditMode
        /\ isSelected
        /\ ~dragState.isDragging
        /\ Cardinality(DOMAIN contacts) = 1
        /\ Cardinality(DOMAIN contacts') = 2)
          => LET p == GetTouchPosition(contacts'[1].at, ContainerRect)
                 q == GetTouchPosition(contacts'[2].at, ContainerRect)
             IN  /\ ~longPressTimer'.armed
                 /\ ~dragState'.isDragging
                 /\ dragState'.isResizing
                 /\ dragState'.initialSize = overlay.size
                 /\ dragState'.startSize = overlay.size
                 /\ dragState'.initialDistance * dragState'.initialDistance
                       = (p.x - q.x) * (p.x - q.x) + (p.y - q.y) * (p.y - q.y)]_vars

\* The second finger has arrived before the long-press delay of the first,
\* which had moved meanwhile: the timer is gone and the overlay is resized.
C23_Witness ==
    /\ DOMAIN contacts = {1, 2}
    /\ lastTap = 0
    /\ contacts[1].down # contacts[1].at
    /\ touchesRef[1].startX = GetTouchPosition(contacts[1].at, ContainerRect).x
    /\ ~longPressTimer.armed
    /\ ~dragState.isDragging
    /\ dragState.isResizing
    /\ dragState.initialDistance > 0


\* C24: a touch end that leaves no finger on the screen cancels the gesture
\* timer, empties the set of the touches, and leaves the overlay neither
\* dragged nor resized.
C24_AllContactsLiftedEndsTheGesture ==
    [][(/\ props.isEditMode
        /\ DOMAIN contacts # {}
        /\ DOMAIN contacts' = {}
        /\ deselectTimers' # deselectTimers)
          => /\ ~longPressTimer'.armed
             /\ DOMAIN touchesRef' = {}
             /\ ~dragState'.isDragging
             /\ ~dragState'.isResizing]_vars

\* The last finger of a gesture that dragged or resized has just lifted.
C24_Witness ==
    /\ props.isTouchDevice
    /\ DOMAIN contacts = {}
    /\ \E t \in deselectTimers : t.left = 3000 /\ t.wasEditing
    /\ DOMAIN touchesRef = {}
    /\ ~longPressTimer.armed
    /\ ~dragState.isDragging
    /\ ~dragState.isResizing


\* C25: three seconds after the last finger has lifted, the overlay is
\* deselected if it is neither dragged nor resized then, and left as it is
\* otherwise, whatever the gesture was that ended with the lift.
C25_DeselectedThreeSecondsAfterLift ==
    [][(deselectTimers' # deselectTimers /\ deselectTimers' \subseteq deselectTimers)
          => IF ~dragState.isDragging /\ ~dragState.isResizing
             THEN ~isSelected'
             ELSE isSelected' = isSelected]_vars


\* C26: on a device with a mouse, in edit mode, the press on the overlay
\* makes it dragged in the same step; as long as the overlay is dragged by
\* the mouse a move of the pointer to any point, also outside of the overlay
\* and of the container, emits a position; the release ends the drag, and the
\* pointer emits a position only while the overlay is dragged.
C26_PointerDragFromPressToRelease ==
    /\ [][/\ (dragBy' = Mouse /\ gestures' = gestures + 1)
               => (dragState'.isDragging /\ dragState'.startPosition = overlay.position)
          /\ (dragBy = Mouse /\ dragBy' = Nobody) => ~dragState'.isDragging
          /\ (emitted'.kind = "position" /\ emitted'.by = Mouse) => dragState.isDragging]_vars
    /\ [](dragBy = Mouse =>
            /\ dragState.isDragging
            /\ \A p \in Points : ENABLED HandleGlobalMouseMove(p))

\* The pointer, pressed on the overlay, is far outside of the container, no
\* finger is on the screen, and a position is emitted.
C26_Witness ==
    /\ dragBy = Mouse
    /\ DOMAIN contacts = {}
    /\ emitted.kind = "position"
    /\ emitted.by = Mouse
    /\ emitted.value.x = 90


\* C27: in a drag by the mouse each emitted position is the overlay's
\* position at the press plus the way the pointer has gone since the press
\* (in percents of the container), clamped to [0, 90] per axis.
C27_PointerDragFollowsThePointer ==
    (emitted.kind = "position" /\ emitted.by = Mouse /\ dragBy = Mouse) =>
        LET down == GetTouchPosition(pressedAt, ContainerRect)
            now == GetTouchPosition(emitted.at, ContainerRect)
            rawX == overlay.position.x + (now.x - down.x)
            rawY == overlay.position.y + (now.y - down.y)
        IN  /\ emitted.value.x = (IF rawX < 0 THEN 0 ELSE IF rawX > 90 THEN 90 ELSE rawX)
            /\ emitted.value.y = (IF rawY < 0 THEN 0 ELSE IF rawY > 90 THEN 90 ELSE rawY)


\* A move of the pointer to point p that emits a size.
PointerMoveEmitsSize(p) == HandleGlobalMouseMove(p) /\ emitted'.kind = "size"

\* C28: the press on a resize handle makes the overlay resized, with that
\* handle and with the overlay's size as the anchor, and from then on a move
\* of the pointer emits a size.
C28_HandleDragResizes ==
    /\ [][(dragState'.resizeHandle # "" /\ dragState'.resizeHandle # dragState.resizeHandle)
             => /\ dragState'.isResizing
                /\ dragState'.resizeHandle \in ResizeHandles
                /\ dragState'.startSize = overlay.size]_vars
    /\ []((dragState.isResizing /\ dragState.resizeHandle # "")
             => \A p \in Points : ENABLED PointerMoveEmitsSize(p))


C30_NothingStartsWithoutContact ==
    [][DOMAIN contacts' = {}
          => /\ (~dragState.isDragging /\ dragState'.isDragging) => dragBy' = Mouse
             /\ (~dragState.isResizing /\ dragState'.isResizing)
                   => dragState'.resizeHandle # ""
             /\ dragState'.initialDistance = dragState.initialDistance
             /\ dragState'.initialSize = dragState.initialSize
             /\ longPressTimer'.armed => longPressTimer.armed
             /\ emitted'.kind # "none" => emitted'.by = Mouse]_vars


\* A move of finger id to point p that emits no size.
TouchMoveEmitsNoSize(id, p) == HandleTouchMove(id, p) /\ emitted'.kind # "size"

\* C31: when one finger of a pinch lifts and the other stays down, nothing
\* fails and no size is emitted: a size is emitted only while two fingers are
\* on the screen, and while the overlay is resized with one finger left, every
\* move of that finger is handled and emits no size.
C31_LiftedPinchContactIsAbsorbed ==
    /\ [](emitted.kind = "size" => Cardinality(DOMAIN contacts) = 2)
    /\ []((/\ props.isEditMode
           /\ dragState.isResizing
           /\ Cardinality(DOMAIN contacts) = 1)
             => \A id \in DOMAIN contacts : \A p \in Points \ {contacts[id].at} :
                   ENABLED TouchMoveEmitsNoSize(id, p))

\* One finger of a pinch has lifted: the overlay is still resized, with the
\* anchors of the pinch; the one finger left on the screen is tracked, is away
\* from where it came down, and no size is emitted.
C31_Witness ==
    /\ dragState.isResizing
    /\ ~dragState.isDragging
    /\ dragState.initialDistance > 0
    /\ Cardinality(DOMAIN contacts) = 1
    /\ DOMAIN touchesRef = DOMAIN contacts
    /\ \E id \in DOMAIN contacts :
          /\ contacts[id].at # contacts[id].down
          /\ touchesRef[id].currentX = GetTouchPosition(contacts[id].at, ContainerRect).x
          /\ touchesRef[id].currentX # touchesRef[id].startX
    /\ emitted = NoEmission


\* What the queue and the request client hold for overlay ov: its armed
\* timers, its entry of the timer map, its flag, its calls and their
\* controllers.
StateOf(ov, armed, map, list, outstanding, controllers) ==
    [timers |-> {t \in armed : t.ov = ov},
     handle |-> map[ov],
     flag |-> ov \in Range(list),
     calls |-> {c \in outstanding : c.endpoint = ov},
     controllers |-> {e \in controllers : e.key[2] = Url(ov)}]

\* C32: an edit of one overlay, immediate or not, leaves every other overlay
\* as it is: its armed debounce timer (with the time it has left), its entry
\* of the timer map, its pending flag, and its update in flight with the
\* controller of its fetch.
C32_EditLeavesOtherOverlaysAlone ==
    [][Len(edits') = Len(edits) + 1 =>
          \A other \in Overlays \ {edits'[Len(edits')].ov} :
              StateOf(other, timers', updateTimeouts', updating', calls', abortControllers')
                 = StateOf(other, timers, updateTimeouts, updating, calls, abortControllers)]_vars

\* An edit of ov1 waits in its window; ov2 has been edited twice since, the
\* second edit within the window of the first, whose timer it has cleared:
\* the timer of ov1 is armed as before, and both overlays are flagged.
C32_Witness ==
    /\ Len(edits) = 3
    /\ edits[1].ov = "ov1" /\ ~edits[1].immediate
    /\ edits[2].ov = "ov2" /\ edits[3].ov = "ov2"
    /\ 3 \in edits[2].within
    /\ {t.h : t \in timers} = {1, 3}
    /\ updateTimeouts["ov1"] = 1
    /\ "ov1" \in Range(updating)
    /\ "ov2" \in Range(updating)


\* C33: the overlay is never dragged and resized at the same time, also when
\* a second finger arrives after the long press has started a drag.
C33_NeverDraggingAndResizing ==
    ~(dragState.isDragging /\ dragState.isResizing)


\* C34: whenever the overlay is dragged or resized it is selected, and an
\* auto-deselect timer that runs while a finger is down or while the overlay
\* is dragged or resized leaves the selection as it is.
C34_SelectedWhileDraggedOrResized ==
    /\ []((dragState.isDragging \/ dragState.isResizing) => isSelected)
    /\ [][(/\ deselectTimers' # deselectTimers
           /\ deselectTimers' \subseteq deselectTimers
           /\ (DOMAIN contacts # {} \/ dragState.isDragging \/ dragState.isResizing))
             => isSelected' = isSelected]_vars


\* C35: with no input left (no finger on the screen, the mouse button not
\* held) the overlay is neither dragged nor resized: the release of the
\* button and the lift of the last finger end the drag and the resize.
C35_NoModeWithoutInput ==
    (DOMAIN contacts = {} /\ pressedAt = NotPressed)
        => (~dragState.isDragging /\ ~dragState.isResizing)


\* C36: a call that was outstanding when cancelAllRequests or cancelRequest
\* ran (its fetch was aborted, or it waited in a backoff delay) makes no
\* network attempt afterwards.
C36_NoAttemptAfterCancel ==
    [][\A c \in calls' :
          (c.phase = "fetch" /\ \E d \in calls : d.id = c.id /\ d.attempt < c.attempt)
              => \A k \in Range(cancelled) : c.id \notin k.aborted \cup k.waiting]_vars


\* C37: cleanup() leaves no debounce timer armed, no entry in the timer map
\* and no overlay flagged, whatever came before it (so that no timer of an
\* earlier edit is left to start an update afterwards).
C37_CleanupLeavesNothingArmed ==
    [][cleanups' = cleanups + 1 =>
          /\ timers' = {}
          /\ \A ov \in Overlays : updateTimeouts'[ov] = 0
          /\ updating' = <<>>]_vars


\* C38: without a cleanup, the latest edit of an overlay is sent: a
\* non-immediate edit that no later edit of its overlay follows has its
\* update started in the end (when its 500 ms are over), whatever became of
\* the earlier updates of the overlay; no update is started for an edit
\* before its window is over, and every update carries the value of its edit.
C38_LastEditIsEventuallySent ==
    /\ \A h \in 1..MaxEdits :
          (Len(edits) >= h /\ ~edits[h].immediate)
             ~> (h \in Sent \/ \E j \in DOMAIN edits : j > h /\ edits[j].ov = edits[h].ov)
    /\ [](\A t \in timers : t.h \notin Sent)
    /\ [](\A c \in calls :
            /\ c.endpoint = edits[c.edit].ov
            /\ DOMAIN c.body = {edits[c.edit].field}
            /\ c.body[edits[c.edit].field] = edits[c.edit].value)

\* The update of the latest edit of an overlay, a debounced one, is in
\* flight while an earlier update of the overlay, which has failed once,
\* waits for its retry.
C38_Witness ==
    \E c, d \in calls :
        /\ c.edit = Len(edits)
        /\ ~edits[c.edit].immediate
        /\ c.phase = "fetch"
        /\ d.edit < c.edit
        /\ d.endpoint = c.endpoint
        /\ d.phase = "backoff"

====
